---- MODULE Spec2Model ----
(***************************************************************************)
(* APSViz-Settings: the database connection wrapper (PGUtils), the domain  *)
(* repository (PGImplementation) and the HTTP handlers that use them.      *)
(*                                                                         *)
(* Two levels are modelled.                                                *)
(*   SpecConn  one PGUtils object, statement by statement: the retry loop  *)
(*             of get_db_connection, the liveness probe, exec_sql.         *)
(*   Spec      the server: two PGImplementation handles on the database    *)
(*             'asgs' (db_info, auto-commit on; db_info_no_auto_commit,    *)
(*             auto-commit off) and the request handlers of server.py.     *)
(***************************************************************************)
EXTENDS Integers, Sequences, FiniteSets, TLC

\* ------------------------------------------------------------------------
\* Bounds of the model
\* ------------------------------------------------------------------------

\* longest result set the database returns to one statement
MaxRows == 2
\* consecutive failed connection attempts that are counted (the counter
\* saturates; the loop itself is not bounded)
MaxAttempts == 3
\* superseded connections that are counted (the counter saturates)
MaxStale == 2
\* sends of one statement that are counted (the counter saturates)
MaxSends == 2
\* requests the worker has accepted and not yet answered
MaxInFlight == 2

\* ------------------------------------------------------------------------
\* Python values returned by exec_sql
\* ------------------------------------------------------------------------

PyInt(n) == [t |-> "int", i |-> n, rows |-> <<>>]
PyList(rs) == [t |-> "list", i |-> 0, rows |-> rs]
PyNone == [t |-> "none", i |-> 0, rows |-> <<>>]
\* an exception that left the function instead of a return value
PyRaise == [t |-> "raise", i |-> 0, rows |-> <<>>]

RowVals == {"a", "b"}
RowSets == UNION {[1..n -> RowVals] : n \in 0..MaxRows}

\* What the database does with one statement sent on a cursor: cursor.execute
\* raises, or it succeeds and fetchall raises (the statement has no result
\* set), or the statement yields a result set.
StmtOutcomes ==
    {[kind |-> "execute_raises", rows |-> <<>>], [kind |-> "fetch_raises", rows |-> <<>>]}
        \cup {[kind |-> "rows", rows |-> rs] : rs \in RowSets}

\* no statement has been sent yet
NoOutcome == [kind |-> "none", rows |-> <<>>]

VARIABLES
    \* --- one PGUtils object (SpecConn) ---
    conn,           \* self.conn: "None" or "open"
    cursor,         \* self.cursor: "None" or "open"
    auto_commit,    \* self.auto_commit
    conn_autocommit,\* self.conn.autocommit of the current connection
    db_up,          \* the server accepts connections and answers queries
    conn_ok,        \* the session behind self.conn is still usable
    pc,             \* position of the one thread using the object
    caller,         \* who called get_db_connection: "init" or "exec_sql"
    good_conn,      \* get_db_connection's local good_conn
    attempts,       \* failed attempts of the current get_db_connection call
    is_select,      \* exec_sql's argument
    ret_val,        \* what the last exec_sql returned
    db_outcome,     \* what the database did with exec_sql's last statement
    returned,       \* get_db_connection returned in the last step
    opened,         \* the current get_db_connection call opened a connection
    conn_live,      \* the server still holds the session behind self.conn
    stale,          \* connections the object no longer references that
                    \* were never closed and are still open
    teardown,       \* what __del__ did, once it has run
    sends,          \* times the current exec_sql call sent its statement
    \* --- the server (Spec) ---
    session,        \* per handle: the state of its database session
    request,        \* the request handled last
    calls,          \* the exec_sql and commit calls made while handling it
    repo_ret,       \* what the PGImplementation methods it called returned
    response,       \* the response sent for it
    leaked,         \* statements of an aborted reset_job_order batch that
                    \* the last request made durable
    \* --- the event loop of the one worker (SpecLoop) ---
    loop            \* per request in flight: where its handler coroutine is

connVars == <<conn, cursor, auto_commit, conn_autocommit, db_up, conn_ok, pc,
              caller, good_conn, attempts, is_select, ret_val, db_outcome,
              returned, opened, conn_live, stale, teardown, sends>>

srvVars == <<session, request, calls, repo_ret, response, leaked>>

vars == <<connVars, srvVars, loop>>

\* __del__ has not run
NoTeardown == [done |-> FALSE, log |-> <<>>, raised |-> FALSE, propagated |-> FALSE]

\* ------------------------------------------------------------------------
\* PGUtils.check_db_connection
\* ------------------------------------------------------------------------

\* What the probe query meets on the current session: "raise" (cursor.execute
\* or fetchone raises) or "row" (fetchone returns the version row).
ProbeOutcome == IF db_up /\ conn_ok THEN "row" ELSE "raise"

\* The Python value check_db_connection returns: "True", "False" or "None"
\* (ret_val is initialised to None and stays None when fetchone gives nothing).
check_db_connection(c, cur, outcome) ==
    IF c = "None" \/ cur = "None" THEN "False"
    ELSE IF outcome = "raise" THEN "False"
    ELSE IF outcome = "row" THEN "True"
    ELSE "None"

\* ------------------------------------------------------------------------
\* PGUtils.get_db_connection, one loop step per action
\* ------------------------------------------------------------------------

\* where the caller continues once get_db_connection has returned
Continue == IF caller = "init" THEN "idle" ELSE "execute"

Bump(n) == IF n < MaxAttempts THEN n + 1 ELSE n

\* GetConn_Probe1 with the else branch of line 59 missing: connects anew even
\* when the probe succeeded
GetConn_Probe1_AlwaysConnect ==
    /\ pc = "probe1"
    /\ good_conn' = "False"
    /\ pc' = "connect"
    /\ returned' = FALSE
    /\ UNCHANGED <<conn, cursor, auto_commit, conn_autocommit, db_up, conn_ok,
                   caller, attempts, is_select, ret_val,
                   db_outcome>>
    /\ UNCHANGED <<opened, conn_live, stale, teardown, sends>>

\* line 55, and the else branch of line 59 (lines 76-78)
GetConn_Probe1 ==
    /\ pc = "probe1"
    /\ LET r == check_db_connection(conn, cursor, ProbeOutcome) IN
        /\ good_conn' = r
        /\ IF r = "True"
              THEN pc' = Continue /\ returned' = TRUE
              ELSE pc' = "connect" /\ returned' = FALSE
    /\ UNCHANGED <<conn, cursor, auto_commit, conn_autocommit, db_up, conn_ok,
                   caller, attempts, is_select, ret_val,
                   db_outcome>>
    /\ UNCHANGED <<opened, conn_live, stale, teardown, sends>>

\* Lines 61 and 67 rebind self.conn and self.cursor and close nothing. The
\* connection they referenced, when the server still holds its session, is
\* closed only if the interpreter finalizes it at once; otherwise it stays
\* open.
Supersede ==
    /\ opened' = TRUE
    /\ conn_live' = TRUE
    /\ IF conn = "open" /\ conn_live
          THEN \E finalized \in BOOLEAN :
                  stale' = IF finalized \/ stale >= MaxStale THEN stale ELSE stale + 1
          ELSE stale' = stale

\* GetConn_Connect with line 67 forgotten: no cursor is opened
GetConn_Connect_NoCursor ==
    /\ pc = "connect"
    /\ IF db_up
          THEN /\ conn' = "open"
               /\ conn_autocommit' = auto_commit
               /\ conn_ok' = TRUE
               /\ Supersede
               /\ pc' = "probe2"
               /\ UNCHANGED <<good_conn, cursor>>
          ELSE /\ good_conn' = "False"
               /\ pc' = "sleep"
               /\ UNCHANGED <<conn, conn_autocommit, cursor, conn_ok, opened,
                              conn_live, stale>>
    /\ returned' = FALSE
    /\ UNCHANGED <<auto_commit, db_up, caller, attempts, is_select, ret_val,
                   db_outcome>>
    /\ UNCHANGED <<teardown, sends>>

\* GetConn_Connect with line 64 forgotten: the new connection keeps the
\* driver's default, autocommit off
GetConn_Connect_DefaultCommit ==
    /\ pc = "connect"
    /\ IF db_up
          THEN /\ conn' = "open"
               /\ conn_autocommit' = FALSE
               /\ cursor' = "open"
               /\ conn_ok' = TRUE
               /\ Supersede
               /\ pc' = "probe2"
               /\ UNCHANGED good_conn
          ELSE /\ good_conn' = "False"
               /\ pc' = "sleep"
               /\ UNCHANGED <<conn, conn_autocommit, cursor, conn_ok, opened,
                              conn_live, stale>>
    /\ returned' = FALSE
    /\ UNCHANGED <<auto_commit, db_up, caller, attempts, is_select, ret_val,
                   db_outcome>>
    /\ UNCHANGED <<teardown, sends>>

\* lines 61-67: connect, set the commit mode, open the cursor; a refused
\* connection raises and the except clause sets good_conn to False
GetConn_Connect ==
    /\ pc = "connect"
    /\ IF db_up
          THEN /\ conn' = "open"
               /\ conn_autocommit' = auto_commit
               /\ cursor' = "open"
               /\ conn_ok' = TRUE
               /\ Supersede
               /\ pc' = "probe2"
               /\ UNCHANGED good_conn
          ELSE /\ good_conn' = "False"
               /\ pc' = "sleep"
               /\ UNCHANGED <<conn, conn_autocommit, cursor, conn_ok, opened,
                              conn_live, stale>>
    /\ returned' = FALSE
    /\ UNCHANGED <<auto_commit, db_up, caller, attempts, is_select, ret_val,
                   db_outcome>>
    /\ UNCHANGED <<teardown, sends>>

\* GetConn_Probe2 with the test of line 73 dropped: returns after any probe
GetConn_Probe2_NoCheck ==
    /\ pc = "probe2"
    /\ good_conn' = check_db_connection(conn, cursor, ProbeOutcome)
    /\ pc' = Continue
    /\ returned' = TRUE
    /\ UNCHANGED <<conn, cursor, auto_commit, conn_autocommit, db_up, conn_ok,
                   caller, attempts, is_select, ret_val,
                   db_outcome>>
    /\ UNCHANGED <<opened, conn_live, stale, teardown, sends>>

\* GetConn_Probe2 without the return of line 75: the call logs and sleeps
\* after every connection attempt, also a successful one
GetConn_Probe2_NoReturn ==
    /\ pc = "probe2"
    /\ good_conn' = check_db_connection(conn, cursor, ProbeOutcome)
    /\ pc' = "sleep"
    /\ returned' = FALSE
    /\ UNCHANGED <<conn, cursor, auto_commit, conn_autocommit, db_up, conn_ok,
                   caller, attempts, is_select, ret_val,
                   db_outcome>>
    /\ UNCHANGED <<opened, conn_live, stale, teardown, sends>>

\* lines 70-75: probe the new connection, return when it is good
GetConn_Probe2 ==
    /\ pc = "probe2"
    /\ LET r == check_db_connection(conn, cursor, ProbeOutcome) IN
        /\ good_conn' = r
        /\ IF r = "True"
              THEN pc' = Continue /\ returned' = TRUE
              ELSE pc' = "sleep" /\ returned' = FALSE
    /\ UNCHANGED <<conn, cursor, auto_commit, conn_autocommit, db_up, conn_ok,
                   caller, attempts, is_select, ret_val,
                   db_outcome>>
    /\ UNCHANGED <<opened, conn_live, stale, teardown, sends>>

\* GetConn_Sleep with a ceiling on the attempts: the third failure raises
GetConn_Sleep_GiveUp ==
    /\ pc = "sleep"
    /\ attempts' = Bump(attempts)
    /\ pc' = IF attempts >= 2 THEN "raised" ELSE "probe1"
    /\ returned' = FALSE
    /\ UNCHANGED <<conn, cursor, auto_commit, conn_autocommit, db_up, conn_ok,
                   caller, good_conn, is_select, ret_val,
                   db_outcome>>
    /\ UNCHANGED <<opened, conn_live, stale, teardown, sends>>

\* lines 82-83 and the loop test of line 53: log, sleep, go round again
GetConn_Sleep ==
    /\ pc = "sleep"
    /\ attempts' = Bump(attempts)
    /\ IF good_conn # "True"
          THEN pc' = "probe1" /\ returned' = FALSE
          ELSE pc' = Continue /\ returned' = TRUE
    /\ UNCHANGED <<conn, cursor, auto_commit, conn_autocommit, db_up, conn_ok,
                   caller, good_conn, is_select, ret_val,
                   db_outcome>>
    /\ UNCHANGED <<opened, conn_live, stale, teardown, sends>>

\* ------------------------------------------------------------------------
\* PGUtils.exec_sql
\* ------------------------------------------------------------------------

\* lines 143-146: a caller enters exec_sql, which enters get_db_connection
ExecSql_Call ==
    /\ pc = "idle"
    /\ \E sel \in BOOLEAN : is_select' = sel
    /\ ret_val' = PyNone
    /\ caller' = "exec_sql"
    /\ good_conn' = "False"
    /\ attempts' = 0
    /\ pc' = "probe1"
    /\ returned' = FALSE
    /\ UNCHANGED <<conn, cursor, auto_commit, conn_autocommit, db_up, conn_ok,
                   db_outcome>>
    /\ opened' = FALSE
    /\ sends' = 0
    /\ UNCHANGED <<conn_live, stale, teardown>>

\* exec_sql_result with the emptiness test of line 158 off by one
exec_sql_result_OffByOne(o, sel) ==
    IF o.kind = "execute_raises" THEN PyInt(-2)
    ELSE IF sel
        THEN IF o.kind = "fetch_raises" THEN PyInt(-2)
             ELSE IF Len(o.rows) <= 1 THEN PyInt(-1)
             ELSE PyList(o.rows)
        ELSE PyNone

\* exec_sql_result with the try of line 148 covering cursor.execute only: an
\* exception of fetchall leaves exec_sql
exec_sql_result_FetchUncaught(o, sel) ==
    IF o.kind = "execute_raises" THEN PyInt(-2)
    ELSE IF sel
        THEN IF o.kind = "fetch_raises" THEN PyRaise
             ELSE IF Len(o.rows) = 0 THEN PyInt(-1)
             ELSE PyList(o.rows)
        ELSE PyNone

\* lines 148-164: the value exec_sql returns for what the database did
exec_sql_result(o, sel) ==
    IF o.kind = "execute_raises" THEN PyInt(-2)
    ELSE IF sel
        THEN IF o.kind = "fetch_raises" THEN PyInt(-2)
             ELSE IF Len(o.rows) = 0 THEN PyInt(-1)
             ELSE PyList(o.rows)
        ELSE PyNone

\* the outcomes the database can produce on the current session
SessionOutcomes ==
    IF db_up /\ conn_ok THEN StmtOutcomes
    ELSE {[kind |-> "execute_raises", rows |-> <<>>]}

\* ExecSql_Execute with a retry: a statement that failed is sent again after
\* the connection has been checked once more
ExecSql_Execute_RetryFailed ==
    /\ pc = "execute"
    /\ \E o \in SessionOutcomes :
        /\ ret_val' = exec_sql_result(o, is_select)
        /\ db_outcome' = o
        /\ \E ok \in {conn_ok, conn_ok /\ (conn_autocommit \/ o.kind = "rows")} :
            conn_ok' = ok
        /\ pc' = IF exec_sql_result(o, is_select) = PyInt(-2) /\ sends = 0
                    THEN "probe1" ELSE "idle"
    /\ returned' = FALSE
    /\ UNCHANGED <<conn, cursor, auto_commit, conn_autocommit, db_up, caller,
                   good_conn, attempts, is_select>>
    /\ sends' = IF sends < MaxSends THEN sends + 1 ELSE sends
    /\ UNCHANGED <<opened, conn_live, stale, teardown>>

\* lines 148-167: execute the statement and return. A statement that fails
\* inside a transaction (auto-commit off) may leave the session unusable
\* until it is rolled back.
ExecSql_Execute ==
    /\ pc = "execute"
    /\ \E o \in SessionOutcomes :
        /\ ret_val' = exec_sql_result(o, is_select)
        /\ db_outcome' = o
        /\ \E ok \in {conn_ok, conn_ok /\ (conn_autocommit \/ o.kind = "rows")} :
            conn_ok' = ok
    /\ pc' = "idle"
    /\ returned' = FALSE
    /\ UNCHANGED <<conn, cursor, auto_commit, conn_autocommit, db_up, caller,
                   good_conn, attempts, is_select>>
    /\ sends' = IF sends < MaxSends THEN sends + 1 ELSE sends
    /\ UNCHANGED <<opened, conn_live, stale, teardown>>

\* ------------------------------------------------------------------------
\* PGUtils.__del__ and the end of the object's life
\* ------------------------------------------------------------------------

\* teardown_result with the two closes in the other order
teardown_result_ConnFirst(c, cur, cursor_close_raises, conn_close_raises) ==
    LET connRaised == c # "None" /\ conn_close_raises
        afterConn == IF c # "None" THEN <<"conn.close">> ELSE <<>>
        afterCursor == IF connRaised \/ cur = "None" THEN afterConn
                       ELSE Append(afterConn, "cursor.close")
        cursorRaised == ~connRaised /\ cur # "None" /\ cursor_close_raises
    IN [done |-> TRUE,
        log |-> IF cursorRaised \/ connRaised
                   THEN Append(afterCursor, "logger.exception") ELSE afterCursor,
        raised |-> cursorRaised \/ connRaised,
        propagated |-> FALSE]

\* lines 117-132: inside one try, close the cursor if there is one, then the
\* connection if there is one; an exception of either close skips the rest
\* of the try and is logged. log is the sequence of the calls made.
teardown_result(c, cur, cursor_close_raises, conn_close_raises) ==
    LET cursorRaised == cur # "None" /\ cursor_close_raises
        afterCursor == IF cur # "None" THEN <<"cursor.close">> ELSE <<>>
        afterConn == IF cursorRaised \/ c = "None" THEN afterCursor
                     ELSE Append(afterCursor, "conn.close")
        connRaised == ~cursorRaised /\ c # "None" /\ conn_close_raises
    IN [done |-> TRUE,
        log |-> IF cursorRaised \/ connRaised
                   THEN Append(afterConn, "logger.exception") ELSE afterConn,
        raised |-> cursorRaised \/ connRaised,
        propagated |-> FALSE]

\* the object is disposed of, at rest or after its constructor was
\* interrupted: __del__ runs, each close succeeding or raising
Del ==
    /\ pc \in {"idle", "aborted"}
    /\ \E cursor_close_raises \in BOOLEAN, conn_close_raises \in BOOLEAN :
        LET t == teardown_result(conn, cursor, cursor_close_raises,
                                 conn_close_raises)
        IN /\ teardown' = t
           /\ conn_live' = (conn_live /\ (t.raised \/ conn = "None"))
    /\ pc' = "deleted"
    /\ returned' = FALSE
    /\ UNCHANGED <<conn, cursor, auto_commit, conn_autocommit, db_up, conn_ok,
                   caller, good_conn, attempts, is_select, ret_val,
                   db_outcome, opened, stale, sends>>

\* line 83: a KeyboardInterrupt or SystemExit raised during time.sleep is
\* not an Exception; the except clause of line 79 does not catch it and it
\* leaves get_db_connection and its caller
Interrupt ==
    /\ pc = "sleep"
    /\ pc' = "aborted"
    /\ returned' = FALSE
    /\ UNCHANGED <<conn, cursor, auto_commit, conn_autocommit, db_up, conn_ok,
                   caller, good_conn, attempts, is_select, ret_val,
                   db_outcome, opened, conn_live, stale, teardown, sends>>

\* the interpreter finalizes a superseded connection, which closes it
Collect ==
    /\ stale > 0
    /\ stale' = stale - 1
    /\ returned' = FALSE
    /\ UNCHANGED <<conn, cursor, auto_commit, conn_autocommit, db_up, conn_ok,
                   pc, caller, good_conn, attempts, is_select, ret_val,
                   db_outcome, opened, conn_live, teardown, sends>>

\* ------------------------------------------------------------------------
\* The database server
\* ------------------------------------------------------------------------

\* the server stops: it refuses connections and every session is lost
DbDown ==
    /\ db_up
    /\ db_up' = FALSE
    /\ conn_ok' = FALSE
    /\ returned' = FALSE
    /\ UNCHANGED <<conn, cursor, auto_commit, conn_autocommit, pc, caller,
                   good_conn, attempts, is_select, ret_val,
                   db_outcome>>
    /\ conn_live' = FALSE
    /\ stale' = 0
    /\ UNCHANGED <<opened, teardown, sends>>

\* the server is back; sessions lost before stay lost
DbUp ==
    /\ ~db_up
    /\ db_up' = TRUE
    /\ returned' = FALSE
    /\ UNCHANGED <<conn, cursor, auto_commit, conn_autocommit, conn_ok, pc,
                   caller, good_conn, attempts, is_select, ret_val,
                   db_outcome>>
    /\ UNCHANGED <<opened, conn_live, stale, teardown, sends>>

\* ------------------------------------------------------------------------
\* The server's handles (server.py lines 44-52) and their sessions
\* ------------------------------------------------------------------------

\* db_info and db_info_no_auto_commit, both on the database 'asgs'
Handles == {"db_info", "db_info_no_auto_commit"}

\* server.py line 46: the database names both handles are constructed with
db_names == {"asgs"}

\* the _auto_commit each handle was constructed with
AutoCommit(h) == h = "db_info"

\* One SQL statement: the stored procedure and its arguments, the numbers and
\* the strings each in the order they are written into the statement.
Stmt(proc, ints, strs) == [proc |-> proc, ints |-> ints, strs |-> strs]
NoStmt == Stmt("", <<>>, <<>>)

\* A session holds the statements of its open transaction (pending), those
\* among them that an aborted reset_job_order batch left behind (orphans),
\* and whether the session is unusable (broken): the connection was lost, or
\* a statement failed inside the transaction.
FreshSession == [pending |-> {}, orphans |-> {}, broken |-> FALSE]

\* What exec_sql of the registry returns for one statement. The registry
\* (PGUtilsMultiConnect) delegates to the connection wrapper: the fetched
\* rows, -1 for no rows, -2 for an exception; the callers in pg_impl.py also
\* expect the result code 0.
Results == {PyList(<<"a">>), PyInt(0), PyInt(-1), PyInt(-2)}

\* How the database answers the statements of one request that sends at most
\* n: `ok` to the first k statements, `fail` to every later one.
Scripts(n) ==
    {s \in [ok : {PyInt(0), PyList(<<"a">>)}, k : 0..(n - 1), fail : Results] :
        s.k = 0 => s.ok = PyInt(0)}
Answer(script, i) == IF i <= script.k THEN script.ok ELSE script.fail

\* The calls a PGImplementation method makes on its registry:
\* exec_sql(name, sql) and commit(name), name being the database name.
ExecCall(h, name, stmt, ret) ==
    [h |-> h, op |-> "exec_sql", name |-> name, stmt |-> stmt, ret |-> ret]
CommitCall(h, name) ==
    [h |-> h, op |-> "commit", name |-> name, stmt |-> NoStmt, ret |-> PyNone]

\* ------------------------------------------------------------------------
\* PGImplementation (pg_impl.py), every statement on the database 'asgs'
\* ------------------------------------------------------------------------

\* Python's ret_val != 0
PyNotZero(v) == ~(v.t = "int" /\ v.i = 0)

\* Python's ret_val > -1: defined between numbers only, a list or None on
\* the left raises TypeError
PyGtRaises(v) == v.t # "int"
PyGtMinusOne(v) == v.t = "int" /\ v.i > -1

\* pg_impl.py lines 88-118: record id and next job type, in sequence
workflow_job_types(wf) ==
    IF wf = "ASGS" THEN
        << <<1, 23>>, <<15, 30>>, <<21, 27>>, <<19, 25>>, <<17, 24>>,
           <<16, 19>>, <<11, 20>>, <<14, 21>> >>
    ELSE IF wf = "ECFLOW" THEN
        << <<101, 23>>, <<104, 30>>, <<111, 25>>, <<106, 24>>, <<105, 19>>,
           <<102, 29>>, <<110, 20>>, <<103, 21>> >>
    ELSE << <<201, 21>> >>

\* pg_impl.py lines 49-63
get_job_defs(h, script, base) ==
    LET ret == Answer(script, base + 1) IN
    [calls |-> <<ExecCall(h, "asgs", Stmt("get_supervisor_job_defs_json", <<>>, <<>>), ret)>>,
     ret |-> ret, raised |-> FALSE]

\* pg_impl.py lines 143-154
get_run_list(h, script, base) ==
    LET ret == Answer(script, base + 1) IN
    [calls |-> <<ExecCall(h, "asgs", Stmt("get_supervisor_run_list", <<>>, <<>>), ret)>>,
     ret |-> ret, raised |-> FALSE]

\* pg_impl.py lines 65-78
get_job_order(h, wf, script, base) ==
    LET ret == Answer(script, base + 1) IN
    [calls |-> <<ExecCall(h, "asgs", Stmt("get_supervisor_job_order", <<>>, <<wf>>), ret)>>,
     ret |-> ret, raised |-> FALSE]

\* reset_loop without the break of line 134: the loop runs to the end of the
\* list whatever the results
RECURSIVE reset_loop_NoBreak(_, _, _, _, _, _)
reset_loop_NoBreak(h, wf, i, script, base, acc) ==
    LET items == workflow_job_types(wf) IN
    IF i > Len(items) THEN [calls |-> acc, failed |-> FALSE]
    ELSE LET ret == Answer(script, base + i)
             c == ExecCall(h, "asgs",
                           Stmt("update_next_job_for_job", items[i], <<wf>>), ret)
             rest == reset_loop_NoBreak(h, wf, i + 1, script, base, Append(acc, c))
         IN [calls |-> rest.calls, failed |-> rest.failed \/ PyNotZero(ret)]

\* pg_impl.py lines 123-134: the loop over the items, from item i on; calls
\* made so far in acc
RECURSIVE reset_loop(_, _, _, _, _, _)
reset_loop(h, wf, i, script, base, acc) ==
    LET items == workflow_job_types(wf) IN
    IF i > Len(items) THEN [calls |-> acc, failed |-> FALSE]
    ELSE LET ret == Answer(script, base + i)
             c == ExecCall(h, "asgs",
                           Stmt("update_next_job_for_job", items[i], <<wf>>), ret)
         IN IF PyNotZero(ret)
               THEN [calls |-> Append(acc, c), failed |-> TRUE]
               ELSE reset_loop(h, wf, i + 1, script, base, Append(acc, c))

\* reset_job_order committing on another database name than it wrote to
reset_job_order_OtherName(h, wf, script, base) ==
    LET r == reset_loop(h, wf, 1, script, base, <<>>) IN
    [calls |-> IF ~r.failed THEN Append(r.calls, CommitCall(h, "apsviz")) ELSE r.calls,
     ret |-> r.failed, raised |-> FALSE]

\* pg_impl.py lines 80-141
reset_job_order(h, wf, script, base) ==
    LET r == reset_loop(h, wf, 1, script, base, <<>>) IN
    [calls |-> IF ~r.failed THEN Append(r.calls, CommitCall(h, "asgs")) ELSE r.calls,
     ret |-> r.failed, raised |-> FALSE]

\* pg_impl.py lines 169-174, 188-193, 209-214: run the statement, commit
\* when the result is greater than -1
exec_and_commit(h, stmt, script, base) ==
    LET ret == Answer(script, base + 1)
        c == ExecCall(h, "asgs", stmt, ret)
    IN IF PyGtRaises(ret) THEN [calls |-> <<c>>, ret |-> ret, raised |-> TRUE]
       ELSE IF PyGtMinusOne(ret)
           THEN [calls |-> <<c, CommitCall(h, "asgs")>>, ret |-> ret, raised |-> FALSE]
           ELSE [calls |-> <<c>>, ret |-> ret, raised |-> FALSE]

\* pg_impl.py lines 195-214
update_run_status(h, instance_id, uid, status, script, base) ==
    exec_and_commit(h, Stmt("set_config_item", <<instance_id>>,
                            <<uid, "supervisor_job_status", status>>), script, base)

\* ------------------------------------------------------------------------
\* The effect of a request's calls on the sessions
\* ------------------------------------------------------------------------

\* exec_sql first acquires: an unusable session is replaced by a new one and
\* its open transaction is gone. A statement that returned -2 had no effect
\* and, inside a transaction, leaves the session unusable. With auto-commit
\* on nothing stays pending. commit makes the pending statements durable.
ApplyCall(st, c) ==
    LET h == c.h
        cur == IF c.op = "exec_sql" /\ st.session[h].broken
                  THEN FreshSession ELSE st.session[h]
    IN IF c.op = "commit"
          THEN [session |-> [st.session EXCEPT ![h] = FreshSession],
                leaked |-> st.leaked \cup (cur.orphans \cap cur.pending)]
       ELSE IF c.ret = PyInt(-2)
          THEN [session |-> [st.session EXCEPT ![h] =
                                [cur EXCEPT !.broken = ~AutoCommit(h)]],
                leaked |-> st.leaked]
       ELSE IF AutoCommit(h)
          THEN [session |-> [st.session EXCEPT ![h] = cur], leaked |-> st.leaked]
       ELSE [session |-> [st.session EXCEPT ![h] =
                                [cur EXCEPT !.pending = @ \cup {c.stmt}]],
             leaked |-> st.leaked]

RECURSIVE ApplyCalls(_, _, _)
ApplyCalls(st, cs, i) ==
    IF i > Len(cs) THEN st ELSE ApplyCalls(ApplyCall(st, cs[i]), cs, i + 1)

\* the statements a batch sent on handle h
BatchStmts(cs, h) == {cs[i].stmt : i \in {j \in 1..Len(cs) : cs[j].h = h /\ cs[j].op = "exec_sql"}}

\* The sessions after a request: its calls applied in order; when its
\* reset_job_order batch was aborted, what the batch left pending is orphaned.
\* Leaked are the orphans the request made durable without issuing them itself.
AfterRequest(cs, aborted) ==
    LET st == ApplyCalls([session |-> session, leaked |-> {}], cs, 1)
        h == "db_info_no_auto_commit"
    IN [session |-> IF aborted
                       THEN [st.session EXCEPT ![h].orphans =
                                @ \cup (st.session[h].pending \cap BatchStmts(cs, h))]
                       ELSE st.session,
        leaked |-> st.leaked \ BatchStmts(cs, h)]

\* ------------------------------------------------------------------------
\* The request handlers (server.py)
\* ------------------------------------------------------------------------

\* utils.py lines 101-106
WorkflowTypeName == {"ECFLOW", "HECRAS"}
\* utils.py lines 148-154
RunStatus == {"new", "debug", "do not rerun"}
\* instance ids, uids and statuses a client sends
InstanceIds == {0, 3057}
Uids == {"2021062406-namforecast"}
Statuses == {"new", "do not rerun"}

\* A request: the handler it was routed to and its parameters; the parameters
\* a handler does not take are empty. freeze is whether the freeze sentinel
\* file is on disk when the request arrives.
Request(handler, wf, instance_id, uid, status) ==
    [handler |-> handler, wf |-> wf, instance_id |-> instance_id, uid |-> uid,
     status |-> status, image_repo |-> "", job_type_name |-> "",
     next_job_type_name |-> "", version |-> <<>>, freeze |-> FALSE]
NoRequest == Request("", "", 0, "", "")

\* body: "data" (the value the database returned), "success" (a success
\* message) or "failure" (a failure message)
Response(status_code, body) == [status_code |-> status_code, body |-> body]
NoResponse == Response(0, "")

\* what a PGImplementation method handed back: Python's True, False or None,
\* "value" for the value exec_sql returned, "raised" for an exception
RepoRet(r, v) == IF r.raised THEN "raised" ELSE v

Finish(req, r, aborted, rr, resp) ==
    /\ request' = req
    /\ calls' = r
    /\ repo_ret' = rr
    /\ response' = resp
    /\ LET a == AfterRequest(r, aborted) IN
        /\ session' = a.session
        /\ leaked' = a.leaked

\* server.py lines 199-224
display_job_order ==
    \E wf \in WorkflowTypeName, script \in Scripts(1) :
        LET r == get_job_order("db_info", wf, script, 0) IN
        Finish(Request("display_job_order", wf, 0, "", ""), r.calls, FALSE,
               <<RepoRet(r, "value")>>,
               IF r.raised THEN Response(500, "failure") ELSE Response(200, "data"))

\* server.py lines 227-275
handle_reset_job_order ==
    \E wf \in WorkflowTypeName :
    \E script \in Scripts(Len(workflow_job_types(wf)) + 1) :
        LET r == reset_job_order("db_info_no_auto_commit", wf, script, 0)
            g == get_job_order("db_info", wf, script, Len(r.calls) - 1)
            req == Request("reset_job_order", wf, 0, "", "")
        IN IF r.raised \/ r.ret
              THEN Finish(req, r.calls, r.ret, <<RepoRet(r, "True")>>,
                          Response(500, "failure"))
              ELSE Finish(req, r.calls \o g.calls, FALSE,
                          <<RepoRet(r, "False"), RepoRet(g, "value")>>,
                          IF g.raised THEN Response(500, "failure")
                          ELSE Response(200, "success"))

\* A row of the shape the stored procedure is written to return: a dict
\* with the keys the handler reads. The row "a" of Results is a bare string.
Record == "record"

\* every row of the value is a dict of that shape
well_formed(v) == v.t = "list" /\ \A i \in 1..Len(v.rows) : v.rows[i] = Record

\* the answers of the database to a handler that reads rows: those of
\* Scripts(1) and a list of well-formed rows
ReadScripts ==
    Scripts(1) \cup {[ok |-> PyInt(0), k |-> 0, fail |-> PyList(<<Record>>)]}

\* server.py lines 152-196: the loops over the job definitions raise when
\* the value is a number or a row is not a dict of the expected shape
get_sv_component_versions ==
    \E script \in ReadScripts :
        LET r == get_job_defs("db_info", script, 0) IN
        Finish(Request("get_sv_component_versions", "", 0, "", ""), r.calls, FALSE,
               <<RepoRet(r, "value")>>,
               IF r.raised \/ ~well_formed(r.ret) THEN Response(500, "failure")
               ELSE Response(200, "data"))

\* server.py lines 278-320: a list is reshaped into the job definitions,
\* anything else leaves the answer empty; a row that is not a dict of the
\* expected shape raises, and the answer built so far is sent with 500
display_job_definitions ==
    \E script \in ReadScripts :
        LET r == get_job_defs("db_info", script, 0) IN
        Finish(Request("display_job_definitions", "", 0, "", ""), r.calls, FALSE,
               <<RepoRet(r, "value")>>,
               IF r.raised \/ (r.ret.t = "list" /\ ~well_formed(r.ret))
                  THEN Response(500, "data") ELSE Response(200, "data"))

\* server.py lines 368-392: db_info.get_run_props is not a method of
\* PGImplementation, the AttributeError is caught and answered with 500
get_the_run_properties ==
    \E instance_id \in InstanceIds, uid \in Uids :
        Finish(Request("get_the_run_properties", "", instance_id, uid, ""),
               <<>>, FALSE, <<"raised">>, Response(500, "failure"))

\* server.py lines 395-427: the loop over the result raises TypeError when
\* the result is a number or a row is not a dict with the key 'status'
get_the_run_list ==
    \E script \in ReadScripts :
        LET r == get_run_list("db_info", script, 0) IN
        Finish(Request("get_the_run_list", "", 0, "", ""), r.calls, FALSE,
               <<RepoRet(r, "value")>>,
               IF r.raised \/ ~well_formed(r.ret) THEN Response(500, "failure")
               ELSE Response(200, "data"))

\* server.py lines 431-470
set_the_run_status ==
    \E instance_id \in InstanceIds, uid \in Uids, status \in Statuses :
        LET req == Request("set_the_run_status", "", instance_id, uid, status) IN
        IF instance_id > 0
           THEN \E script \in Scripts(1) :
                LET r == update_run_status("db_info_no_auto_commit", instance_id,
                                           uid, status, script, 0)
                IN Finish(req, r.calls, FALSE, <<RepoRet(r, "None")>>,
                          IF r.raised THEN Response(500, "failure")
                          ELSE Response(200, "success"))
           ELSE Finish(req, <<>>, FALSE, <<>>, Response(400, "failure"))

\* ------------------------------------------------------------------------
\* Enumerations and tables of utils.py
\* ------------------------------------------------------------------------

\* utils.py lines 109-125
JobTypeName ==
    {"adcirc2cog-tiff-job", "adcirctime-to-cog-job", "adcirc-to-kalpana-cog-job",
     "ast-run-harvester-job", "collab-data-sync-job", "final-staging-job",
     "geotiff2cog-job", "hazus", "load-geo-server-job", "load-geo-server-s3-job",
     "obs-mod-ast-job", "staging", "timeseriesdb-ingest-job"}

\* utils.py lines 128-145
NextJobTypeName == JobTypeName \cup {"complete"}

\* utils.py lines 157-163
ImageRepo ==
    {"containers.renci.org", "renciorg",
     "732457422609.dkr.ecr.us-east-2.amazonaws.com"}

\* utils.py lines 28-29
image_repo_to_repo_name(image_repo) ==
    CASE image_repo = "renciorg" -> "renciorg"
      [] image_repo = "containers.renci.org" -> "containers.renci.org/eds"
      [] image_repo = "732457422609.dkr.ecr.us-east-2.amazonaws.com" ->
            "732457422609.dkr.ecr.us-east-2.amazonaws.com"

\* utils.py lines 32-37
job_type_to_image_name(job_type_name) ==
    CASE job_type_name = "adcirc2cog-tiff-job" -> "/adcirc2cog:"
      [] job_type_name = "adcirctime-to-cog-job" -> "/adcirctime2cogs:"
      [] job_type_name = "adcirc-to-kalpana-cog-job" -> "/kalpana:"
      [] job_type_name = "ast-run-harvester-job" -> "/ast_run_harvester:"
      [] job_type_name = "collab-data-sync-job" -> "/apsviz-collab-sync:"
      [] job_type_name = "final-staging-job" -> "/stagedata:"
      [] job_type_name = "geotiff2cog-job" -> "/adcirc2cog:"
      [] job_type_name = "hazus" -> "/adras:"
      [] job_type_name = "load-geo-server-job" -> "/load_geoserver:"
      [] job_type_name = "load-geo-server-s3-job" -> "/load_geoserver:"
      [] job_type_name = "obs-mod-ast-job" -> "/ast_supp:"
      [] job_type_name = "staging" -> "/stagedata:"
      [] job_type_name = "timeseriesdb-ingest-job" -> "/apsviz-timeseriesdb-ingest:"

\* utils.py lines 40-43; dict.get gives None (here 0) for a missing key
job_type_name_to_id_NoComplete(name) ==
    CASE name = "adcirc2cog-tiff-job" -> 23
      [] name = "adcirctime-to-cog-job" -> 26
      [] name = "adcirc-to-kalpana-cog-job" -> 30
      [] name = "ast-run-harvester-job" -> 27
      [] name = "collab-data-sync-job" -> 29
      [] name = "final-staging-job" -> 20
      [] name = "geotiff2cog-job" -> 24
      [] name = "hazus" -> 12
      [] name = "load-geo-server-job" -> 19
      [] name = "load-geo-server-s3-job" -> 28
      [] name = "obs-mod-ast-job" -> 25
      [] name = "staging" -> 11
      [] name = "timeseriesdb-ingest-job" -> 31
      [] OTHER -> 0
job_type_name_to_id(name) ==
    CASE name = "adcirc2cog-tiff-job" -> 23
      [] name = "adcirctime-to-cog-job" -> 26
      [] name = "adcirc-to-kalpana-cog-job" -> 30
      [] name = "ast-run-harvester-job" -> 27
      [] name = "collab-data-sync-job" -> 29
      [] name = "complete" -> 21
      [] name = "final-staging-job" -> 20
      [] name = "geotiff2cog-job" -> 24
      [] name = "hazus" -> 12
      [] name = "load-geo-server-job" -> 19
      [] name = "load-geo-server-s3-job" -> 28
      [] name = "obs-mod-ast-job" -> 25
      [] name = "staging" -> 11
      [] name = "timeseriesdb-ingest-job" -> 31
      [] OTHER -> 0

\* ------------------------------------------------------------------------
\* Python strings as sequences of characters, and the methods used on them
\* ------------------------------------------------------------------------

\* A character is a one-character string; a character that cannot be written
\* in a string of this module is the token "U+" followed by its code point.

\* server.py line 499: the characters str.strip() removes, those for which
\* str.isspace() holds
Whitespace ==
    { "\t", "\n", "U+000B", "\f", "\r", "U+001C", "U+001D", "U+001E",
      "U+001F", " ", "U+0085", "U+00A0", "U+1680", "U+2000", "U+2001", "U+2002",
      "U+2003", "U+2004", "U+2005", "U+2006", "U+2007", "U+2008", "U+2009", "U+200A",
      "U+2028", "U+2029", "U+202F", "U+205F", "U+3000" }

\* server.py line 496: the characters \d of a str pattern matches, the
\* decimal digits of every script (Unicode category Nd)
Digit ==
    { "0", "1", "2", "3", "4", "5", "6", "7",
      "8", "9", "U+0660", "U+0661", "U+0662", "U+0663", "U+0664", "U+0665",
      "U+0666", "U+0667", "U+0668", "U+0669", "U+06F0", "U+06F1", "U+06F2", "U+06F3",
      "U+06F4", "U+06F5", "U+06F6", "U+06F7", "U+06F8", "U+06F9", "U+07C0", "U+07C1",
      "U+07C2", "U+07C3", "U+07C4", "U+07C5", "U+07C6", "U+07C7", "U+07C8", "U+07C9",
      "U+0966", "U+0967", "U+0968", "U+0969", "U+096A", "U+096B", "U+096C", "U+096D",
      "U+096E", "U+096F", "U+09E6", "U+09E7", "U+09E8", "U+09E9", "U+09EA", "U+09EB",
      "U+09EC", "U+09ED", "U+09EE", "U+09EF", "U+0A66", "U+0A67", "U+0A68", "U+0A69",
      "U+0A6A", "U+0A6B", "U+0A6C", "U+0A6D", "U+0A6E", "U+0A6F", "U+0AE6", "U+0AE7",
      "U+0AE8", "U+0AE9", "U+0AEA", "U+0AEB", "U+0AEC", "U+0AED", "U+0AEE", "U+0AEF",
      "U+0B66", "U+0B67", "U+0B68", "U+0B69", "U+0B6A", "U+0B6B", "U+0B6C", "U+0B6D",
      "U+0B6E", "U+0B6F", "U+0BE6", "U+0BE7", "U+0BE8", "U+0BE9", "U+0BEA", "U+0BEB",
      "U+0BEC", "U+0BED", "U+0BEE", "U+0BEF", "U+0C66", "U+0C67", "U+0C68", "U+0C69",
      "U+0C6A", "U+0C6B", "U+0C6C", "U+0C6D", "U+0C6E", "U+0C6F", "U+0CE6", "U+0CE7",
      "U+0CE8", "U+0CE9", "U+0CEA", "U+0CEB", "U+0CEC", "U+0CED", "U+0CEE", "U+0CEF",
      "U+0D66", "U+0D67", "U+0D68", "U+0D69", "U+0D6A", "U+0D6B", "U+0D6C", "U+0D6D",
      "U+0D6E", "U+0D6F", "U+0DE6", "U+0DE7", "U+0DE8", "U+0DE9", "U+0DEA", "U+0DEB",
      "U+0DEC", "U+0DED", "U+0DEE", "U+0DEF", "U+0E50", "U+0E51", "U+0E52", "U+0E53",
      "U+0E54", "U+0E55", "U+0E56", "U+0E57", "U+0E58", "U+0E59", "U+0ED0", "U+0ED1",
      "U+0ED2", "U+0ED3", "U+0ED4", "U+0ED5", "U+0ED6", "U+0ED7", "U+0ED8", "U+0ED9",
      "U+0F20", "U+0F21", "U+0F22", "U+0F23", "U+0F24", "U+0F25", "U+0F26", "U+0F27",
      "U+0F28", "U+0F29", "U+1040", "U+1041", "U+1042", "U+1043", "U+1044", "U+1045",
      "U+1046", "U+1047", "U+1048", "U+1049", "U+1090", "U+1091", "U+1092", "U+1093",
      "U+1094", "U+1095", "U+1096", "U+1097", "U+1098", "U+1099", "U+17E0", "U+17E1",
      "U+17E2", "U+17E3", "U+17E4", "U+17E5", "U+17E6", "U+17E7", "U+17E8", "U+17E9",
      "U+1810", "U+1811", "U+1812", "U+1813", "U+1814", "U+1815", "U+1816", "U+1817",
      "U+1818", "U+1819", "U+1946", "U+1947", "U+1948", "U+1949", "U+194A", "U+194B",
      "U+194C", "U+194D", "U+194E", "U+194F", "U+19D0", "U+19D1", "U+19D2", "U+19D3",
      "U+19D4", "U+19D5", "U+19D6", "U+19D7", "U+19D8", "U+19D9", "U+1A80", "U+1A81",
      "U+1A82", "U+1A83", "U+1A84", "U+1A85", "U+1A86", "U+1A87", "U+1A88", "U+1A89",
      "U+1A90", "U+1A91", "U+1A92", "U+1A93", "U+1A94", "U+1A95", "U+1A96", "U+1A97",
      "U+1A98", "U+1A99", "U+1B50", "U+1B51", "U+1B52", "U+1B53", "U+1B54", "U+1B55",
      "U+1B56", "U+1B57", "U+1B58", "U+1B59", "U+1BB0", "U+1BB1", "U+1BB2", "U+1BB3",
      "U+1BB4", "U+1BB5", "U+1BB6", "U+1BB7", "U+1BB8", "U+1BB9", "U+1C40", "U+1C41",
      "U+1C42", "U+1C43", "U+1C44", "U+1C45", "U+1C46", "U+1C47", "U+1C48", "U+1C49",
      "U+1C50", "U+1C51", "U+1C52", "U+1C53", "U+1C54", "U+1C55", "U+1C56", "U+1C57",
      "U+1C58", "U+1C59", "U+A620", "U+A621", "U+A622", "U+A623", "U+A624", "U+A625",
      "U+A626", "U+A627", "U+A628", "U+A629", "U+A8D0", "U+A8D1", "U+A8D2", "U+A8D3",
      "U+A8D4", "U+A8D5", "U+A8D6", "U+A8D7", "U+A8D8", "U+A8D9", "U+A900", "U+A901",
      "U+A902", "U+A903", "U+A904", "U+A905", "U+A906", "U+A907", "U+A908", "U+A909",
      "U+A9D0", "U+A9D1", "U+A9D2", "U+A9D3", "U+A9D4", "U+A9D5", "U+A9D6", "U+A9D7",
      "U+A9D8", "U+A9D9", "U+A9F0", "U+A9F1", "U+A9F2", "U+A9F3", "U+A9F4", "U+A9F5",
      "U+A9F6", "U+A9F7", "U+A9F8", "U+A9F9", "U+AA50", "U+AA51", "U+AA52", "U+AA53",
      "U+AA54", "U+AA55", "U+AA56", "U+AA57", "U+AA58", "U+AA59", "U+ABF0", "U+ABF1",
      "U+ABF2", "U+ABF3", "U+ABF4", "U+ABF5", "U+ABF6", "U+ABF7", "U+ABF8", "U+ABF9",
      "U+FF10", "U+FF11", "U+FF12", "U+FF13", "U+FF14", "U+FF15", "U+FF16", "U+FF17",
      "U+FF18", "U+FF19", "U+104A0", "U+104A1", "U+104A2", "U+104A3", "U+104A4", "U+104A5",
      "U+104A6", "U+104A7", "U+104A8", "U+104A9", "U+10D30", "U+10D31", "U+10D32", "U+10D33",
      "U+10D34", "U+10D35", "U+10D36", "U+10D37", "U+10D38", "U+10D39", "U+11066", "U+11067",
      "U+11068", "U+11069", "U+1106A", "U+1106B", "U+1106C", "U+1106D", "U+1106E", "U+1106F",
      "U+110F0", "U+110F1", "U+110F2", "U+110F3", "U+110F4", "U+110F5", "U+110F6", "U+110F7",
      "U+110F8", "U+110F9", "U+11136", "U+11137", "U+11138", "U+11139", "U+1113A", "U+1113B",
      "U+1113C", "U+1113D", "U+1113E", "U+1113F", "U+111D0", "U+111D1", "U+111D2", "U+111D3",
      "U+111D4", "U+111D5", "U+111D6", "U+111D7", "U+111D8", "U+111D9", "U+112F0", "U+112F1",
      "U+112F2", "U+112F3", "U+112F4", "U+112F5", "U+112F6", "U+112F7", "U+112F8", "U+112F9",
      "U+11450", "U+11451", "U+11452", "U+11453", "U+11454", "U+11455", "U+11456", "U+11457",
      "U+11458", "U+11459", "U+114D0", "U+114D1", "U+114D2", "U+114D3", "U+114D4", "U+114D5",
      "U+114D6", "U+114D7", "U+114D8", "U+114D9", "U+11650", "U+11651", "U+11652", "U+11653",
      "U+11654", "U+11655", "U+11656", "U+11657", "U+11658", "U+11659", "U+116C0", "U+116C1",
      "U+116C2", "U+116C3", "U+116C4", "U+116C5", "U+116C6", "U+116C7", "U+116C8", "U+116C9",
      "U+11730", "U+11731", "U+11732", "U+11733", "U+11734", "U+11735", "U+11736", "U+11737",
      "U+11738", "U+11739", "U+118E0", "U+118E1", "U+118E2", "U+118E3", "U+118E4", "U+118E5",
      "U+118E6", "U+118E7", "U+118E8", "U+118E9", "U+11950", "U+11951", "U+11952", "U+11953",
      "U+11954", "U+11955", "U+11956", "U+11957", "U+11958", "U+11959", "U+11C50", "U+11C51",
      "U+11C52", "U+11C53", "U+11C54", "U+11C55", "U+11C56", "U+11C57", "U+11C58", "U+11C59",
      "U+11D50", "U+11D51", "U+11D52", "U+11D53", "U+11D54", "U+11D55", "U+11D56", "U+11D57",
      "U+11D58", "U+11D59", "U+11DA0", "U+11DA1", "U+11DA2", "U+11DA3", "U+11DA4", "U+11DA5",
      "U+11DA6", "U+11DA7", "U+11DA8", "U+11DA9", "U+16A60", "U+16A61", "U+16A62", "U+16A63",
      "U+16A64", "U+16A65", "U+16A66", "U+16A67", "U+16A68", "U+16A69", "U+16AC0", "U+16AC1",
      "U+16AC2", "U+16AC3", "U+16AC4", "U+16AC5", "U+16AC6", "U+16AC7", "U+16AC8", "U+16AC9",
      "U+16B50", "U+16B51", "U+16B52", "U+16B53", "U+16B54", "U+16B55", "U+16B56", "U+16B57",
      "U+16B58", "U+16B59", "U+1D7CE", "U+1D7CF", "U+1D7D0", "U+1D7D1", "U+1D7D2", "U+1D7D3",
      "U+1D7D4", "U+1D7D5", "U+1D7D6", "U+1D7D7", "U+1D7D8", "U+1D7D9", "U+1D7DA", "U+1D7DB",
      "U+1D7DC", "U+1D7DD", "U+1D7DE", "U+1D7DF", "U+1D7E0", "U+1D7E1", "U+1D7E2", "U+1D7E3",
      "U+1D7E4", "U+1D7E5", "U+1D7E6", "U+1D7E7", "U+1D7E8", "U+1D7E9", "U+1D7EA", "U+1D7EB",
      "U+1D7EC", "U+1D7ED", "U+1D7EE", "U+1D7EF", "U+1D7F0", "U+1D7F1", "U+1D7F2", "U+1D7F3",
      "U+1D7F4", "U+1D7F5", "U+1D7F6", "U+1D7F7", "U+1D7F8", "U+1D7F9", "U+1D7FA", "U+1D7FB",
      "U+1D7FC", "U+1D7FD", "U+1D7FE", "U+1D7FF", "U+1E140", "U+1E141", "U+1E142", "U+1E143",
      "U+1E144", "U+1E145", "U+1E146", "U+1E147", "U+1E148", "U+1E149", "U+1E2F0", "U+1E2F1",
      "U+1E2F2", "U+1E2F3", "U+1E2F4", "U+1E2F5", "U+1E2F6", "U+1E2F7", "U+1E2F8", "U+1E2F9",
      "U+1E950", "U+1E951", "U+1E952", "U+1E953", "U+1E954", "U+1E955", "U+1E956", "U+1E957",
      "U+1E958", "U+1E959", "U+1FBF0", "U+1FBF1", "U+1FBF2", "U+1FBF3", "U+1FBF4", "U+1FBF5",
      "U+1FBF6", "U+1FBF7", "U+1FBF8", "U+1FBF9" }

RECURSIVE lstrip(_)
lstrip(s) == IF Len(s) > 0 /\ s[1] \in Whitespace THEN lstrip(Tail(s)) ELSE s

RECURSIVE rstrip(_)
rstrip(s) ==
    IF Len(s) > 0 /\ s[Len(s)] \in Whitespace
       THEN rstrip(SubSeq(s, 1, Len(s) - 1)) ELSE s

\* str.strip()
strip(s) == rstrip(lstrip(s))

\* str.startswith(prefix)
startswith(s, prefix) ==
    Len(s) >= Len(prefix) /\ SubSeq(s, 1, Len(prefix)) = prefix

IsDigitAt(s, i) == i <= Len(s) /\ s[i] \in Digit

\* the number of consecutive '.' from position i on
RECURSIVE Dots(_, _)
Dots(s, i) == IF i <= Len(s) /\ s[i] = "." THEN 1 + Dots(s, i + 1) ELSE 0

\* re.compile(r"(v\d\.+\d\.+\d)") (server.py line 496) matched at position i:
\* 'v', a digit, one or more '.', a digit, one or more '.', a digit
version_pattern_match(s, i) ==
    /\ i <= Len(s)
    /\ s[i] = "v"
    /\ IsDigitAt(s, i + 1)
    /\ LET d1 == Dots(s, i + 2) IN
        /\ d1 >= 1
        /\ IsDigitAt(s, i + 2 + d1)
        /\ LET d2 == Dots(s, i + 3 + d1) IN
            /\ d2 >= 1
            /\ IsDigitAt(s, i + 3 + d1 + d2)

\* version_pattern.search(version): a match anywhere in the string
version_pattern_search(s) == \E i \in 1..Len(s) : version_pattern_match(s, i)

latest == <<"l", "a", "t", "e", "s", "t">>

\* server.py line 502: the test the version has to pass
version_is_legit(version) ==
    version_pattern_search(version) \/ startswith(version, latest)

\* ------------------------------------------------------------------------
\* The handlers of the supervisor configuration (server.py)
\* ------------------------------------------------------------------------

\* pg_impl.py lines 156-174
update_next_job_for_job(h, job_name, next_process_id, wf, script, base) ==
    exec_and_commit(h, Stmt("update_next_job_for_job", <<next_process_id>>,
                            <<job_name, wf>>), script, base)

\* pg_impl.py lines 176-193; the image is the sequence of its parts
update_job_image_version(h, job_name, image, script, base) ==
    exec_and_commit(h, Stmt("update_job_image", <<>>, <<job_name>> \o image),
                    script, base)

\* utils.py lines 88-98: freeze mode is the presence of the sentinel file
check_freeze_status_NeverFrozen(file_exists) == FALSE
check_freeze_status(file_exists) == file_exists

\* the version strings a client sends
Versions ==
    { <<"v", "1", ".", "2", ".", "3">>,
      <<" ", "v", "1", ".", "2", ".", "3", " ">>,
      <<"1", ".", "2", ".", "3">>,
      <<"v", "1", "0", ".", "2", ".", "3">>,
      <<"d", "e", "v", "1", ".", "2", ".", "3">>,
      <<"v", "1", ".", "2">>,
      <<"\t", "v", "1", ".", "2", ".", "3", "\n">>,
      <<"v", "U+0661", ".", "U+0662", ".", "U+0663">>,
      <<"l", "a", "t", "e", "s", "t">> }

\* the job types a client sends to the image-version handler
ImageJobTypes == {"staging", "load-geo-server-job"}

\* server.py lines 474-541
set_the_supervisor_component_image_version ==
    \E image_repo \in ImageRepo, job_type_name \in ImageJobTypes,
       version_in \in Versions, file_exists \in BOOLEAN :
        LET req == [Request("set_the_supervisor_component_image_version",
                            "", 0, "", "")
                        EXCEPT !.image_repo = image_repo,
                               !.job_type_name = job_type_name,
                               !.version = version_in,
                               !.freeze = file_exists]
            freeze_mode == check_freeze_status(file_exists)
            version == strip(version_in)
            image == <<image_repo_to_repo_name(image_repo),
                       job_type_to_image_name(job_type_name)>> \o version
        IN IF ~freeze_mode
              THEN IF version_is_legit(version)
                      THEN \E script \in Scripts(1) :
                           LET r == update_job_image_version(
                                        "db_info", job_type_name \o "-", image,
                                        script, 0)
                           IN Finish(req, r.calls, FALSE, <<RepoRet(r, "None")>>,
                                     IF r.raised THEN Response(500, "failure")
                                     ELSE Response(200, "success"))
                      ELSE Finish(req, <<>>, FALSE, <<>>, Response(400, "failure"))
              ELSE Finish(req, <<>>, FALSE, <<>>, Response(401, "failure"))

\* server.py line 568: str-valued enum members compare by their values
is_recursive_EnumIdentity(job_type_name, next_job_type_name) == FALSE
is_recursive(job_type_name, next_job_type_name) ==
    job_type_name = next_job_type_name

\* the next job types a client sends for a job type: every member of
\* NextJobTypeName for staging, the job type itself and complete for the rest
NextJobTypesSent(job_type_name) ==
    IF job_type_name = "staging" THEN NextJobTypeName
    ELSE {job_type_name, "complete"}

\* server.py lines 545-613
set_the_supervisor_job_order ==
    \E wf \in WorkflowTypeName, job_type_name \in JobTypeName :
    \E next_job_type_name \in NextJobTypesSent(job_type_name) :
        LET req == [Request("set_the_supervisor_job_order", wf, 0, "", "")
                        EXCEPT !.job_type_name = job_type_name,
                               !.next_job_type_name = next_job_type_name]
            next_job_type_id == job_type_name_to_id(next_job_type_name)
            job_name == IF job_type_name # "complete"
                           THEN job_type_name \o "-" ELSE job_type_name
        IN IF is_recursive(job_type_name, next_job_type_name)
              THEN Finish(req, <<>>, FALSE, <<>>, Response(500, "failure"))
              ELSE \E script \in Scripts(2) :
                   LET u == update_next_job_for_job("db_info", job_name,
                                                    next_job_type_id, wf, script, 0)
                       g == get_job_order("db_info", wf, script, 1)
                   IN IF u.raised
                         THEN Finish(req, u.calls, FALSE, <<RepoRet(u, "None")>>,
                                     Response(500, "failure"))
                         ELSE Finish(req, u.calls \o g.calls, FALSE,
                                     <<RepoRet(u, "None"), RepoRet(g, "value")>>,
                                     Response(200, "success"))

\* the connection of handle h is lost (server restart, idle timeout)
SessionLost ==
    \E h \in Handles :
        /\ ~session[h].broken
        /\ session' = [session EXCEPT ![h].broken = TRUE]
        /\ UNCHANGED <<request, calls, repo_ret, response, leaked>>

\* ------------------------------------------------------------------------
\* Spec: the server
\* ------------------------------------------------------------------------

\* server.py lines 44-52: both handles constructed, nothing requested yet
\* the requests the worker has accepted and not yet answered
Slots == 1..MaxInFlight
NoSlot == [state |-> "none", req |-> NoRequest, prog |-> <<>>, sent |-> 0]

InitServer ==
    /\ loop = [s \in Slots |-> NoSlot]
    /\ session = [h \in Handles |-> FreshSession]
    /\ request = NoRequest
    /\ calls = <<>>
    /\ repo_ret = <<>>
    /\ response = NoResponse
    /\ leaked = {}

\* the wrapper of SpecConn constructed and at rest
ConnAtRest ==
    /\ conn = "open"
    /\ cursor = "open"
    /\ auto_commit = TRUE
    /\ conn_autocommit = TRUE
    /\ db_up = TRUE
    /\ conn_ok = TRUE
    /\ pc = "idle"
    /\ caller = "init"
    /\ good_conn = "True"
    /\ attempts = 0
    /\ is_select = TRUE
    /\ ret_val = PyNone
    /\ db_outcome = NoOutcome
    /\ returned = FALSE
    /\ opened = FALSE
    /\ conn_live = TRUE
    /\ stale = 0
    /\ teardown = NoTeardown
    /\ sends = 0

Init == InitServer /\ ConnAtRest

Next ==
    \/ display_job_order /\ UNCHANGED <<connVars, loop>>
    \/ handle_reset_job_order /\ UNCHANGED <<connVars, loop>>
    \/ set_the_run_status /\ UNCHANGED <<connVars, loop>>
    \/ display_job_definitions /\ UNCHANGED <<connVars, loop>>
    \/ get_the_run_list /\ UNCHANGED <<connVars, loop>>
    \/ get_sv_component_versions /\ UNCHANGED <<connVars, loop>>
    \/ get_the_run_properties /\ UNCHANGED <<connVars, loop>>
    \/ SessionLost /\ UNCHANGED <<connVars, loop>>

Spec == Init /\ [][Next]_vars

\* ------------------------------------------------------------------------
\* SpecConfig: the server's handlers of the supervisor configuration, all on
\* the auto-commit handle db_info
\* ------------------------------------------------------------------------

NextConfig ==
    \/ set_the_supervisor_component_image_version /\ UNCHANGED <<connVars, loop>>
    \/ set_the_supervisor_job_order /\ UNCHANGED <<connVars, loop>>
    \/ display_job_order /\ UNCHANGED <<connVars, loop>>
    \/ SessionLost /\ UNCHANGED <<connVars, loop>>

SpecConfig == Init /\ [][NextConfig]_vars

\* ------------------------------------------------------------------------
\* SpecConn: one PGUtils object
\* ------------------------------------------------------------------------

\* PGUtils.__init__ lines 35-40: the fields are set and the constructor is
\* about to call get_db_connection
InitConn ==
    /\ InitServer
    /\ conn = "None"
    /\ cursor = "None"
    /\ auto_commit \in BOOLEAN
    /\ conn_autocommit = FALSE
    /\ db_up \in BOOLEAN
    /\ conn_ok = FALSE
    /\ pc = "probe1"
    /\ caller = "init"
    /\ good_conn = "False"
    /\ attempts = 0
    /\ is_select = TRUE
    /\ ret_val = PyNone
    /\ db_outcome = NoOutcome
    /\ returned = FALSE
    /\ opened = FALSE
    /\ conn_live = FALSE
    /\ stale = 0
    /\ teardown = NoTeardown
    /\ sends = 0

ConnStep ==
    \/ GetConn_Probe1
    \/ GetConn_Connect
    \/ GetConn_Probe2
    \/ GetConn_Sleep
    \/ ExecSql_Call
    \/ ExecSql_Execute

NextConn ==
    \/ ConnStep /\ UNCHANGED <<srvVars, loop>>
    \/ DbDown /\ UNCHANGED <<srvVars, loop>>
    \/ DbUp /\ UNCHANGED <<srvVars, loop>>

SpecConn == InitConn /\ [][NextConn]_vars

\* The interpreter keeps running the thread (a sleep of 5 seconds ends); the
\* database is under no obligation.
SpecConnFair == SpecConn /\ WF_vars(ConnStep /\ UNCHANGED <<srvVars, loop>>)

\* ------------------------------------------------------------------------
\* SpecProbe: check_db_connection on every combination of the fields it
\* reads and of what the cursor does with the probe query
\* ------------------------------------------------------------------------

\* lines 100-103: cursor.execute raises, fetchone raises, fetchone returns
\* None, or fetchone returns a row
ProbeResults == StmtOutcomes \cup {[kind |-> "fetchone_none", rows |-> <<>>]}

\* lines 100-110: what the probe query met; `if db_version` is false for
\* None and for an empty row
probe_outcome(o) ==
    IF o.kind \in {"execute_raises", "fetch_raises"} THEN "raise"
    ELSE IF o.kind = "rows" /\ Len(o.rows) > 0 THEN "row"
    ELSE "norow"

InitProbe ==
    /\ InitServer
    /\ conn \in {"None", "open"}
    /\ cursor \in {"None", "open"}
    /\ (conn = "None" => cursor = "None")
    /\ auto_commit \in BOOLEAN
    /\ conn_autocommit = auto_commit
    /\ db_up = TRUE
    /\ conn_ok = TRUE
    /\ pc = "check"
    /\ caller = "client"
    /\ good_conn = "False"
    /\ attempts = 0
    /\ is_select = TRUE
    /\ ret_val = PyNone
    /\ db_outcome \in ProbeResults
    /\ returned = FALSE
    /\ opened = FALSE
    /\ conn_live = (conn = "open")
    /\ stale = 0
    /\ teardown = NoTeardown
    /\ sends = 0

\* lines 85-115, called on its own; the result is left in good_conn
CheckDbConnection ==
    /\ pc = "check"
    /\ good_conn' = check_db_connection(conn, cursor, probe_outcome(db_outcome))
    /\ pc' = "checked"
    /\ UNCHANGED <<conn, cursor, auto_commit, conn_autocommit, db_up, conn_ok,
                   caller, attempts, is_select, ret_val, db_outcome, returned,
                   opened, conn_live, stale, teardown, sends>>

NextProbe == CheckDbConnection /\ UNCHANGED <<srvVars, loop>>

SpecProbe == InitProbe /\ [][NextProbe]_vars

\* ------------------------------------------------------------------------
\* SpecLife: one PGUtils object from construction to disposal
\* ------------------------------------------------------------------------

NextLife ==
    \/ ConnStep /\ UNCHANGED <<srvVars, loop>>
    \/ DbDown /\ UNCHANGED <<srvVars, loop>>
    \/ DbUp /\ UNCHANGED <<srvVars, loop>>
    \/ Interrupt /\ UNCHANGED <<srvVars, loop>>
    \/ Collect /\ UNCHANGED <<srvVars, loop>>
    \/ Del /\ UNCHANGED <<srvVars, loop>>

SpecLife == InitConn /\ [][NextLife]_vars

\* ------------------------------------------------------------------------
\* Properties of the connection wrapper (SpecConn, SpecConnFair)
\* ------------------------------------------------------------------------

InGetConn == pc \in {"probe1", "connect", "probe2", "sleep"}

\* exec_sql has returned and nothing has been called since
ExecSqlReturned == pc = "idle" /\ caller = "exec_sql"

\* C4: get_db_connection returns only with the connection and the cursor
\* present and the liveness probe having just succeeded on them.
C4_ReturnsOnlyLive ==
    returned =>
        /\ conn = "open"
        /\ cursor = "open"
        /\ good_conn = "True"
        /\ db_up
        /\ conn_ok

\* get_db_connection returns to exec_sql after failed attempts
C4_Witness == returned /\ caller = "exec_sql" /\ attempts >= 1

\* C5: once the database accepts connections and answers the probe for good,
\* every pending get_db_connection call, and so every exec_sql call, returns.
C5_SelfHealing == (<>[]db_up) => ((pc # "idle") ~> (pc = "idle"))

\* an exec_sql call that met a dead database has returned
C5_Witness == ExecSqlReturned /\ attempts = MaxAttempts /\ db_up /\ ~returned

\* C6: a failed connection attempt is never surfaced: get_db_connection is
\* left only by a return after a successful probe, every failed attempt goes
\* to the log-and-sleep step, and the sleep is followed by another attempt,
\* whatever the number of attempts so far.
C6_RetriesForever ==
    [][InGetConn =>
        /\ (pc' \notin {"probe1", "connect", "probe2", "sleep"}
                => returned' /\ good_conn' = "True")
        /\ (pc = "connect" /\ ~db_up /\ pc' # pc => pc' = "sleep")
        /\ (pc = "probe2" /\ ProbeOutcome # "row" /\ pc' # pc => pc' = "sleep")
        /\ (pc = "sleep" /\ pc' # pc => pc' = "probe1")]_vars

\* still retrying after MaxAttempts failed attempts
C6_Witness == pc = "probe1" /\ attempts = MaxAttempts /\ ~db_up

\* C7: a select that executes without error returns -1 for zero rows and
\* exactly the fetched rows otherwise.
C7_EmptyIsMinusOne ==
    (ExecSqlReturned /\ is_select /\ db_outcome.kind = "rows") =>
        /\ (Len(db_outcome.rows) = 0 => ret_val = PyInt(-1))
        /\ (Len(db_outcome.rows) >= 1 => ret_val = PyList(db_outcome.rows))
        /\ (ret_val = PyInt(-1) => Len(db_outcome.rows) = 0)

\* a select came back with one row
C7_Witness ==
    ExecSqlReturned /\ is_select /\ db_outcome.kind = "rows"
        /\ Len(db_outcome.rows) = 1 /\ ret_val.t = "list"

\* C8: exec_sql never lets an exception out: an exception of cursor.execute
\* (select or not) or of fetchall (select) makes it return -2.
C8_ExceptionIsMinusTwo ==
    /\ ret_val.t # "raise"
    /\ (ExecSqlReturned /\ db_outcome.kind = "execute_raises")
            => ret_val = PyInt(-2)
    /\ (ExecSqlReturned /\ db_outcome.kind = "fetch_raises" /\ is_select)
            => ret_val = PyInt(-2)

\* fetchall raised in a select and exec_sql returned
C8_Witness ==
    ExecSqlReturned /\ db_outcome.kind = "fetch_raises" /\ is_select

\* ------------------------------------------------------------------------
\* Properties of the repository and the handlers (Spec)
\* ------------------------------------------------------------------------

ExecIdx == {i \in 1..Len(calls) : calls[i].op = "exec_sql"}
CommitIdx == {i \in 1..Len(calls) : calls[i].op = "commit"}
\* the update statements of a reset_job_order batch
UpdateIdx == {i \in ExecIdx : calls[i].stmt.proc = "update_next_job_for_job"}

ResetDone == request.handler = "reset_job_order"
StatusDone == request.handler = "set_the_run_status" /\ request.instance_id > 0

\* C1: reset_job_order, when one of its update calls returns something that
\* is not a list, invokes no commit and returns True.
C1_NonListAborts ==
    (ResetDone /\ \E i \in UpdateIdx : calls[i].ret.t # "list") =>
        /\ CommitIdx = {}
        /\ repo_ret[1] = "True"

\* C2: reset_job_order, when every update call returns a list, invokes
\* exactly one commit, right after the last update statement, and returns
\* False.
C2_AllListsCommitOnce ==
    (ResetDone /\ \A i \in UpdateIdx : calls[i].ret.t = "list") =>
        /\ Cardinality(CommitIdx) = 1
        /\ \A c \in CommitIdx : \A i \in UpdateIdx : i < c
        /\ \A c \in CommitIdx : c - 1 \in UpdateIdx
        /\ repo_ret[1] = "False"

\* C3: the statements an aborted reset_job_order batch has issued are never
\* made durable by a later operation on the same handle.
C3_AbortedNeverDurable == leaked = {}

\* C9: update_run_status issues exactly one update statement with its
\* arguments in order, and one commit after it exactly when the result code
\* is greater than -2.
C9_CommitAboveMinusTwo ==
    StatusDone =>
        /\ Len(calls) >= 1
        /\ ExecIdx = {1}
        /\ calls[1].stmt = Stmt("set_config_item", <<request.instance_id>>,
                                <<request.uid, "supervisor_job_status", request.status>>)
        /\ calls[1].ret.t = "int" =>
                (IF calls[1].ret.i > -2 THEN CommitIdx = {2} ELSE CommitIdx = {})

\* C10: a request one of whose statements failed (exec_sql returned -2) is
\* answered with status 500 and a failure message.
C10_FailedStatementIs500 ==
    (\E i \in ExecIdx : calls[i].ret = PyInt(-2)) =>
        /\ response.status_code = 500
        /\ response.body = "failure"

\* ------------------------------------------------------------------------
\* Properties of the supervisor configuration handlers (SpecConfig)
\* ------------------------------------------------------------------------

JobOrderDone == request.handler = "set_the_supervisor_job_order"
ImageDone == request.handler = "set_the_supervisor_component_image_version"

\* the number of consecutive digits from position i on
RECURSIVE DigitRun(_, _)
DigitRun(s, i) == IF IsDigitAt(s, i) THEN 1 + DigitRun(s, i + 1) ELSE 0

\* the whole string has the form v<int>.<int>.<int> (the form the handler's
\* error message asks for, server.py line 513)
IsVersionForm(s) ==
    /\ Len(s) >= 1
    /\ s[1] = "v"
    /\ LET a == DigitRun(s, 2) IN
        /\ a >= 1
        /\ Dots(s, 2 + a) >= 1
        /\ LET b == DigitRun(s, 3 + a) IN
            /\ b >= 1
            /\ Dots(s, 3 + a + b) >= 1
            /\ LET c == DigitRun(s, 4 + a + b) IN
                /\ c >= 1
                /\ 3 + a + b + c = Len(s)

\* C11: a next-job request whose next job type equals its job type is
\* rejected with an error and makes no database call at all, neither
\* update_next_job_for_job nor get_job_order.
C11_SelfLoopGuard ==
    (JobOrderDone /\ request.next_job_type_name = request.job_type_name) =>
        /\ calls = <<>>
        /\ repo_ret = <<>>
        /\ response.status_code >= 400
        /\ response.body = "failure"

\* staging -> staging has been rejected
C11_Witness ==
    /\ JobOrderDone
    /\ request.job_type_name = "staging"
    /\ request.next_job_type_name = "staging"
    /\ response.body = "failure"

\* C12: every rejection by input validation is answered with status 400: a
\* version that fails the handler's test, a next job type equal to the job
\* type, an instance id that is not positive.
C12_ValidationIs400 ==
    /\ (ImageDone /\ ~request.freeze /\ ~version_is_legit(strip(request.version)))
            => response.status_code = 400
    /\ (JobOrderDone /\ request.next_job_type_name = request.job_type_name)
            => response.status_code = 400
    /\ (request.handler = "set_the_run_status" /\ request.instance_id <= 0)
            => response.status_code = 400

\* C13: outside freeze mode update_job_image_version is attempted exactly
\* when the stripped version has the form v<int>.<int>.<int> or starts with
\* 'latest'.
C13_VersionValidation ==
    (ImageDone /\ ~request.freeze) =>
        ((\E i \in ExecIdx : calls[i].stmt.proc = "update_job_image")
            <=> (IsVersionForm(strip(request.version))
                    \/ startswith(strip(request.version), latest)))

\* C14: in freeze mode the image-version handler makes no call to
\* update_job_image_version, sends no statement, and answers 401 with an
\* error message.
C14_FreezeBlocksUpdate ==
    (ImageDone /\ request.freeze) =>
        /\ calls = <<>>
        /\ repo_ret = <<>>
        /\ response.status_code = 401
        /\ response.body = "failure"

\* a well-formed version has been refused in freeze mode
C14_Witness ==
    /\ ImageDone
    /\ request.freeze
    /\ IsVersionForm(strip(request.version))
    /\ response.status_code = 401

\* C15: no commit is invoked on the handle constructed with auto-commit on.
C15_CommitOnlyWithoutAutoCommit ==
    \A i \in CommitIdx : ~AutoCommit(calls[i].h)

\* ------------------------------------------------------------------------
\* Properties of the wrapper's life (SpecLife)
\* ------------------------------------------------------------------------

\* C16: the wrapper owns one connection and one cursor: no connection it
\* opened earlier and no longer references is still open.
C16_OneLiveConnection == stale = 0

ProbePasses == check_db_connection(conn, cursor, ProbeOutcome) = "True"

\* C17: a get_db_connection call that finds the connection and the cursor
\* passing the probe returns at once, opens no connection and leaves conn,
\* cursor and the auto-commit flag as they are; so a second call right after
\* a first changes nothing.
C17_AcquireIdempotent ==
    [][(pc = "probe1" /\ ProbePasses /\ pc' # pc) =>
        /\ returned'
        /\ pc' \notin {"connect", "probe2", "sleep"}
        /\ opened' = opened
        /\ UNCHANGED <<conn, cursor, auto_commit, conn_autocommit, conn_live,
                       stale>>]_vars

\* exec_sql's call, made after a call that returned, returned at its first
\* probe without opening a connection
C17_Witness ==
    returned /\ caller = "exec_sql" /\ attempts = 0 /\ ~opened /\ conn = "open"

\* C18: no step changes the auto_commit flag, and whenever exec_sql is about
\* to execute a statement the connection's autocommit mode equals the flag.
C18_AutoCommitFixed ==
    /\ [][auto_commit' = auto_commit]_vars
    /\ [](pc = "execute" => conn = "open" /\ conn_autocommit = auto_commit)

\* exec_sql executes on a connection opened by a reconnect, auto-commit on
C18_Witness ==
    pc = "execute" /\ opened /\ attempts >= 1 /\ auto_commit /\ conn_autocommit

\* the positions of a call in what __del__ did
LogIdx(call) == {i \in 1..Len(teardown.log) : teardown.log[i] = call}

\* C19: __del__ closes the cursor before the connection, skips whichever of
\* the two is absent, and lets no exception out: an error raised by a close
\* is caught and logged.
C19_TeardownOrder ==
    teardown.done =>
        /\ ~teardown.propagated
        /\ (cursor = "None" => LogIdx("cursor.close") = {})
        /\ (conn = "None" => LogIdx("conn.close") = {})
        /\ (cursor # "None" => LogIdx("cursor.close") = {1})
        /\ \A i \in LogIdx("conn.close") : \A j \in LogIdx("cursor.close") : j < i
        /\ (conn # "None" /\ ~teardown.raised => LogIdx("conn.close") # {})
        /\ (teardown.raised =>
                LogIdx("logger.exception") = {Len(teardown.log)})

\* __del__ has closed the cursor and then the connection
C19_Witness ==
    /\ teardown.done
    /\ conn = "open"
    /\ cursor = "open"
    /\ teardown.log = <<"cursor.close", "conn.close">>

\* ------------------------------------------------------------------------
\* Properties of the repository's use of its database names (Spec)
\* ------------------------------------------------------------------------

\* C20: all the exec_sql calls and the commit of one PGImplementation
\* operation are addressed to one and the same database name, a name the
\* handle was constructed with.
C20_OneDatabaseName ==
    /\ \A i \in 1..Len(calls) : calls[i].name \in db_names
    /\ \A i \in 1..Len(calls) : \A j \in 1..Len(calls) :
            calls[i].h = calls[j].h => calls[i].name = calls[j].name

\* a reset_job_order that sent all its statements and its commit
C20_Witness ==
    ResetDone /\ request.wf = "ECFLOW" /\ Cardinality(UpdateIdx) = 8
        /\ CommitIdx # {}

\* ------------------------------------------------------------------------
\* Properties of the reset batch (Spec)
\* ------------------------------------------------------------------------

\* a result that signals failure: one of the negative result codes
SignalsFailure(v) == v.t = "int" /\ v.i < 0

\* C21: reset_job_order issues its update statements in the order of the
\* workflow type's pair list, one per pair from the first on, and issues no
\* further update statement after the first one whose result signals failure.
C21_AbortsAtFirstFailure ==
    ResetDone =>
        /\ \E n \in 1..Len(workflow_job_types(request.wf)) : UpdateIdx = 1..n
        /\ \A i \in UpdateIdx :
                calls[i].stmt = Stmt("update_next_job_for_job",
                                     workflow_job_types(request.wf)[i],
                                     <<request.wf>>)
        /\ \A i \in UpdateIdx :
                SignalsFailure(calls[i].ret) => \A j \in UpdateIdx : j <= i

\* the fourth update of an ECFLOW batch failed and was the last one issued
C21_Witness ==
    /\ ResetDone
    /\ request.wf = "ECFLOW"
    /\ UpdateIdx = 1..4
    /\ calls[4].ret = PyInt(-2)

\* ------------------------------------------------------------------------
\* Properties of exec_sql's use of the connection (SpecConn)
\* ------------------------------------------------------------------------

\* C22: in an exec_sql call the statement is sent only once
\* get_db_connection has returned, and at most once: after the statement has
\* been sent, failed or not, exec_sql returns.
C22_SentOnceAfterAcquire ==
    /\ [](sends <= 1)
    /\ [][(sends' # sends /\ sends' # 0) => pc = "execute"]_vars
    /\ [][(pc' = "execute" /\ pc # "execute") =>
            (returned' /\ good_conn' = "True")]_vars
    /\ [][(pc = "execute" /\ pc' # pc) => (pc' = "idle" /\ sends' = 1)]_vars

\* a statement failed and exec_sql returned, having sent it once
C22_Witness == ExecSqlReturned /\ ret_val = PyInt(-2) /\ sends = 1

\* C23, as stated: the sleep-and-retry loop runs during construction only.
C23_SleepOnlyAtConstruction == pc = "sleep" => caller = "init"

\* C23, amended: the sleep-and-retry loop runs inside get_db_connection
\* only, at construction or at the start of an exec_sql call, and is entered
\* only after a failed connection attempt or a failed probe of the new
\* connection, never once the statement has been sent; a call that finds
\* the connection passing the probe does not sleep.
C23_SleepOnlyOnFailedAcquire ==
    /\ [][(pc' = "sleep" /\ pc # "sleep") =>
            \/ (pc = "connect" /\ ~db_up)
            \/ (pc = "probe2" /\ ~ProbePasses)]_vars
    /\ [](pc = "sleep" => sends = 0 /\ good_conn # "True")

\* an exec_sql call made after construction is in the sleep-and-retry loop
C23_Witness == pc = "sleep" /\ caller = "exec_sql" /\ conn = "open"

\* ------------------------------------------------------------------------
\* Properties of the liveness probe (SpecProbe) and of teardown (SpecLife)
\* ------------------------------------------------------------------------

\* C24: check_db_connection returns a boolean: False when the connection or
\* the cursor is absent, when the probe query raises and when it yields no
\* row, True only when it returned a row.
C24_ProbeIsBoolean ==
    pc = "checked" =>
        /\ good_conn \in {"True", "False"}
        /\ (conn = "None" \/ cursor = "None" => good_conn = "False")
        /\ (probe_outcome(db_outcome) = "raise" => good_conn = "False")
        /\ (probe_outcome(db_outcome) = "norow" => good_conn = "False")
        /\ (good_conn = "True" => probe_outcome(db_outcome) = "row")

\* C25: after __del__ has run on a wrapper that has a connection, the
\* connection has been closed, also when closing the cursor raised.
C25_TeardownClosesConnection ==
    (teardown.done /\ conn # "None") => LogIdx("conn.close") # {}

\* ------------------------------------------------------------------------
\* Properties of the next-job handler's id lookup (SpecConfig)
\* ------------------------------------------------------------------------

\* C27: the next-job handler never passes an undefined id: whatever member
\* of NextJobTypeName the request names, the update it sends carries the
\* integer the name-to-id table holds for it, and the table holds one.
C27_NextJobIdDefined ==
    JobOrderDone =>
        /\ job_type_name_to_id(request.next_job_type_name) > 0
        /\ \A i \in UpdateIdx :
               /\ calls[i].stmt.ints =
                      <<job_type_name_to_id(request.next_job_type_name)>>
               /\ calls[i].stmt.ints[1] > 0

\* staging -> timeseriesdb-ingest-job has been sent with id 31
C27_Witness ==
    /\ JobOrderDone
    /\ request.job_type_name = "staging"
    /\ request.next_job_type_name = "timeseriesdb-ingest-job"
    /\ UpdateIdx # {}
    /\ \A i \in UpdateIdx : calls[i].stmt.ints = <<31>>

\* ------------------------------------------------------------------------
\* The documented job sequences and what a reset writes (Spec)
\* ------------------------------------------------------------------------

\* server.py lines 232-241: the normal sequence of each workflow type in the
\* docstring of the reset endpoint, each step by its job type name
normal_sequence(wf) ==
    IF wf = "ASGS" THEN
        <<"staging", "adcirc2cog-tiff-job", "adcirc-to-kalpana-cog-job",
          "ast-run-harvester-job", "adcirctime-to-cog-job", "obs-mod-ast-job",
          "geotiff2cog-job", "load-geo-server-job", "final-staging-job",
          "complete">>
    ELSE IF wf = "ECFLOW" THEN
        <<"staging", "adcirc2cog-tiff-job", "adcirc-to-kalpana-cog-job",
          "adcirctime-to-cog-job", "obs-mod-ast-job", "geotiff2cog-job",
          "load-geo-server-job", "collab-data-sync-job", "final-staging-job",
          "complete">>
    ELSE <<"load-geo-server-s3-job", "complete">>

\* the ids of the successors in the documented sequence, one per transition
documented_next_ids(wf) ==
    [i \in 1..(Len(normal_sequence(wf)) - 1) |->
        job_type_name_to_id(normal_sequence(wf)[i + 1])]

\* the next-job ids of the updates of the batch, in the order sent
written_next_ids ==
    [i \in 1..Cardinality(UpdateIdx) |-> calls[i].stmt.ints[2]]

\* C28: the next-job ids a successful reset_job_order writes, in list order,
\* are the ids of the successors in the documented normal sequence of the
\* workflow type: one update per documented transition, the last one
\* writing the id of complete.
C28_ResetMatchesDocumentedSequence ==
    (ResetDone /\ CommitIdx # {}) =>
        /\ UpdateIdx = 1..Cardinality(UpdateIdx)
        /\ written_next_ids = documented_next_ids(request.wf)
        /\ written_next_ids[Len(written_next_ids)] = job_type_name_to_id("complete")

\* ------------------------------------------------------------------------
\* SpecLoop: the event loop of the one worker process (main.py line 11),
\* requests arriving while others are in flight, the statements of a handler
\* sent one at a time on the module-level handles (server.py lines 49, 52)
\* ------------------------------------------------------------------------

\* server.py lines 200, 228, 432: the handlers are coroutine functions whose
\* bodies hold no await and whose database calls are blocking, so the event
\* loop runs a handler it has started up to its return; a plain function
\* would be run in the thread pool next to other requests
runs_on_ThreadPool(handler) == "thread_pool"
runs_on(handler) == "event_loop"

\* the requests sent to the worker; set_the_run_status with the default of
\* its status parameter (server.py line 432)
LoopRequests ==
    {Request("reset_job_order", wf, 0, "", "") : wf \in WorkflowTypeName}
    \cup {Request("display_job_order", wf, 0, "", "") : wf \in WorkflowTypeName}
    \cup {Request("set_the_run_status", "", i, u, "new") :
            i \in InstanceIds, u \in Uids}

\* the answers of the database to a request of at most n statements: the
\* result code 0 to all of them, or to none, to the first two or to all but
\* the last, and then an exception
LoopScripts(n) ==
    {s \in Scripts(n) :
        /\ s.ok = PyInt(0)
        /\ s.k \in {0, 2, n - 1}
        /\ s.fail \in {PyInt(0), PyInt(-2)}}

\* the exec_sql and commit calls the handler of req makes, in order, for
\* every way the database can answer: server.py lines 211, 251, 258, 446
Programs(req) ==
    IF req.handler = "reset_job_order" THEN
        {LET r == reset_job_order("db_info_no_auto_commit", req.wf, script, 0)
             g == get_job_order("db_info", req.wf, script, Len(r.calls) - 1)
         IN IF r.raised \/ r.ret THEN r.calls ELSE r.calls \o g.calls :
            script \in LoopScripts(Len(workflow_job_types(req.wf)) + 1)}
    ELSE IF req.handler = "display_job_order" THEN
        {get_job_order("db_info", req.wf, script, 0).calls :
            script \in LoopScripts(1)}
    ELSE IF req.instance_id > 0 THEN
        {update_run_status("db_info_no_auto_commit", req.instance_id, req.uid,
                           req.status, script, 0).calls :
            script \in LoopScripts(1)}
    ELSE {<<>>}

\* the handler action of a request
Handler(req) ==
    IF req.handler = "reset_job_order" THEN handle_reset_job_order
    ELSE IF req.handler = "display_job_order" THEN display_job_order
    ELSE set_the_run_status

\* uvicorn accepts a request: a task for its handler is created
Arrive(s) ==
    /\ loop[s].state = "none"
    /\ \E req \in LoopRequests :
        loop' = [loop EXCEPT ![s] = [NoSlot EXCEPT !.state = "pending", !.req = req]]
    /\ UNCHANGED srvVars

\* the handler of a pending request starts: on the event loop only when no
\* other coroutine is running on it
Dispatch(s) ==
    /\ loop[s].state = "pending"
    /\ runs_on(loop[s].req.handler) = "event_loop" =>
           \A t \in Slots \ {s} :
               \/ loop[t].state # "running"
               \/ runs_on(loop[t].req.handler) # "event_loop"
    /\ \E prog \in Programs(loop[s].req) :
        loop' = [loop EXCEPT ![s].state = "running", ![s].prog = prog]
    /\ UNCHANGED srvVars

\* the running handler makes its next call on a handle
Send(s) ==
    /\ loop[s].state = "running"
    /\ loop[s].sent < Len(loop[s].prog)
    /\ loop' = [loop EXCEPT ![s].sent = @ + 1]
    /\ UNCHANGED srvVars

\* the running handler has made its calls and returns its response
Return(s) ==
    /\ loop[s].state = "running"
    /\ loop[s].sent = Len(loop[s].prog)
    /\ Handler(loop[s].req)
    /\ request' = loop[s].req
    /\ calls' = loop[s].prog
    /\ loop' = [loop EXCEPT ![s] = NoSlot]

NextLoop ==
    \/ \E s \in Slots : Arrive(s) /\ UNCHANGED connVars
    \/ \E s \in Slots : Dispatch(s) /\ UNCHANGED connVars
    \/ \E s \in Slots : Send(s) /\ UNCHANGED connVars
    \/ \E s \in Slots : Return(s) /\ UNCHANGED connVars

SpecLoop == Init /\ [][NextLoop]_vars

\* the handler in slot t has made a call on handle h and has another to make
MidSequence(t, h) ==
    /\ loop[t].state = "running"
    /\ \E i, j \in 1..Len(loop[t].prog) :
        /\ i <= loop[t].sent
        /\ loop[t].sent < j
        /\ loop[t].prog[i].h = h
        /\ loop[t].prog[j].h = h

\* the handler in slot s makes a call on handle h in this step
SendsOn(s, h) ==
    /\ loop[s].state = "running"
    /\ loop'[s].sent = loop[s].sent + 1
    /\ loop[s].prog[loop[s].sent + 1].h = h

\* the handler of req can make a call on handle h
Uses(req, h) == \E prog \in Programs(req) : \E i \in 1..Len(prog) : prog[i].h = h

\* C26: requests that share a handle are serialized: no call is made on a
\* handle between two calls another request makes on it, and no two
\* requests are in the middle of their calls on the same handle.
C26_Serialized ==
    /\ [](\A h \in Handles : \A s, t \in Slots :
            (MidSequence(s, h) /\ MidSequence(t, h)) => s = t)
    /\ [][\A h \in Handles : \A s, t \in Slots :
            (SendsOn(s, h) /\ MidSequence(t, h)) => s = t]_vars

\* a reset has sent two of its updates while a request that writes on the
\* same handle is waiting for the loop
C26_Witness ==
    \E s, t \in Slots :
        /\ s # t
        /\ MidSequence(s, "db_info_no_auto_commit")
        /\ loop[s].sent >= 2
        /\ loop[t].state = "pending"
        /\ Uses(loop[t].req, "db_info_no_auto_commit")

====
